---- MODULE Spec2Model ----
(***************************************************************************)
(* Pipeline-and-feedback core of the Q3 2024 sales analysis agent:         *)
(*   main.py        module-level configuration, load_feedback_summary,     *)
(*                  run_analysis                                           *)
(*   evaluation.py  the scenario battery and analyze_metrics               *)
(*   tools/         the tool adapters load_dataset, clean_data,            *)
(*                  analyze_statistics, create_chart and generate_insights *)
(* The file system (dataset files, report files, metrics log), the process *)
(* environment and the wall clock are the state; crew.kickoff() is an      *)
(* external call whose outcome is drawn nondeterministically.              *)
(***************************************************************************)
EXTENDS Integers, Sequences, FiniteSets, TLC

(* ------------------------------ bounds -------------------------------- *)
\* total number of records the metrics log may grow to
MaxRuns == 3
\* last clock tick
MaxClock == 2
\* number of processes (python main.py / python evaluation.py) launched
MaxProcs == 2
\* clock ticks per wall-clock second (datetime.now() is finer than the
\* one-second resolution of the report timestamp)
TicksPerSecond == 2
\* longest crew.kickoff() in ticks
MaxDuration == 1

(* --------------------------- configuration ---------------------------- *)
DATASET_HINT == "ecommerce_q3_2024"
DATA_DIR == "data"
\* RAW_FILE as first assigned, before the override is looked at
DefaultRawFile == DATA_DIR \o "/" \o DATASET_HINT \o ".csv"
\* os.environ without EVAL_RAW_FILE_OVERRIDE
Unset == "<unset>"

alt_path == DATA_DIR \o "/" \o DATASET_HINT \o "_no_revenue.csv"
large_path == DATA_DIR \o "/" \o DATASET_HINT \o "_large.csv"

\* Path.with_suffix(".bak") on a path whose suffix is ".csv"
with_suffix_bak(p) == SubSeq(p, 1, Len(p) - 4) \o ".bak"

DataPaths == {DefaultRawFile, alt_path, large_path}
Paths == DataPaths \cup {with_suffix_bak(p) : p \in DataPaths}

(* ----------------------------- data files ----------------------------- *)
\* a path with no file
Absent == [exists |-> FALSE, cols |-> <<>>, rows |-> 0]
\* a CSV file: header columns in order, number of data rows
Csv(cols, rows) == [exists |-> TRUE, cols |-> cols, rows |-> rows]

\* df.drop(columns=[c]): the remaining columns keep their order
drop_columns(cols, c) == SelectSeq(cols, LAMBDA x : x # c)

SeqToSet(s) == {s[i] : i \in DOMAIN s}

\* datasets the default path may hold when a process starts
BaseDatasets == {Absent,
                 Csv(<<"date", "revenue", "orders">>, 3),
                 Csv(<<"date", "orders">>, 3)}
LargeDatasets == {Absent, Csv(<<"date", "revenue", "orders">>, 9)}

(* ------------------------------- JSON --------------------------------- *)
\* a JSON scalar: t is its type, one of s / n / b carries the value
JNull == [t |-> "null", s |-> "", n |-> 0, b |-> FALSE]
JStr(x) == [t |-> "str", s |-> x, n |-> 0, b |-> FALSE]
JNum(k) == [t |-> "num", s |-> "", n |-> k, b |-> FALSE]
JBool(v) == [t |-> "bool", s |-> "", n |-> 0, b |-> v]
\* datetime.isoformat() of clock tick k: a string; n orders such strings
\* as their characters do (ISO-8601 text sorts chronologically)
isoformat(k) == [t |-> "str", s |-> "iso", n |-> k, b |-> FALSE]

\* one line of the log file
BlankLine == [kind |-> "blank", obj |-> <<>>, val |-> JNull]
GarbageLine == [kind |-> "garbage", obj |-> <<>>, val |-> JNull]
\* json.dumps(d) + "\n" of a dict d of scalars
json_dumps(d) == [kind |-> "object", obj |-> d, val |-> JNull]
\* a line holding valid JSON that is not an object
ScalarLine(v) == [kind |-> "scalar", obj |-> <<>>, val |-> v]

(* ------------------------ load_feedback_summary ----------------------- *)
TruncLen == 140
MaxListedErrors == 3
DefaultMaxRuns == 5

\* Python truth value of a JSON scalar
Truthy(v) == CASE v.t = "null" -> FALSE
               [] v.t = "bool" -> v.b
               [] v.t = "num" -> v.n # 0
               [] OTHER -> ~(v.s = "" /\ v.n = 0)

\* Python == on JSON scalars (True == 1, False == 0)
IsNumber(v) == v.t \in {"num", "bool"}
NumValue(v) == IF v.t = "bool" THEN (IF v.b THEN 1 ELSE 0) ELSE v.n
PyEq(a, b) == IF IsNumber(a) /\ IsNumber(b) THEN NumValue(a) = NumValue(b)
              ELSE a = b

\* r.get(key, default) on a parsed object
dict_get(r, key, default) == IF key \in DOMAIN r THEN r[key] ELSE default

\* the sort key of line 114: r.get("start_time", "")
start_time_key(r) == dict_get(r, "start_time", JStr(""))

\* can Python order the two keys with < ?
Comparable(a, b) == \/ a.t = "str" /\ b.t = "str"
                    \/ IsNumber(a) /\ IsNumber(b)
\* position of a key among comparable keys: "" sorts before every
\* timestamp, timestamps sort by time
KeyRank(k) == IF k.t = "str" THEN (IF k.s = "iso" THEN k.n + 1 ELSE 0)
              ELSE NumValue(k)

RECURSIVE insert_sorted(_, _)
\* insert r behind every element whose key is not greater (stable)
insert_sorted(s, r) ==
    IF s = <<>> THEN <<r>>
    ELSE IF KeyRank(start_time_key(s[Len(s)])) <= KeyRank(start_time_key(r))
         THEN Append(s, r)
         ELSE Append(insert_sorted(SubSeq(s, 1, Len(s) - 1), r), s[Len(s)])

RECURSIVE sorted_by_start_time(_)
sorted_by_start_time(recs) ==
    IF recs = <<>> THEN <<>>
    ELSE insert_sorted(sorted_by_start_time(SubSeq(recs, 1, Len(recs) - 1)),
                       recs[Len(recs)])

\* records[-m:] for m >= 0; note that -0 is 0, so m = 0 keeps everything
last_slice(recs, m) ==
    IF m = 0 \/ m >= Len(recs) THEN recs
    ELSE SubSeq(recs, Len(recs) - m + 1, Len(recs))

RECURSIVE unique_adjacent(_)
\* de-duplication that only drops a message equal to the one just before it
unique_adjacent(es) ==
    IF es = <<>> THEN <<>>
    ELSE LET front == unique_adjacent(SubSeq(es, 1, Len(es) - 1))
             e == es[Len(es)]
         IN IF front # <<>> /\ PyEq(front[Len(front)], e) THEN front
            ELSE Append(front, e)

RECURSIVE unique(_)
\* first-seen order, duplicates (by ==) dropped
unique(es) ==
    IF es = <<>> THEN <<>>
    ELSE LET front == unique(SubSeq(es, 1, Len(es) - 1))
             e == es[Len(es)]
         IN IF \E i \in DOMAIN front : PyEq(front[i], e) THEN front
            ELSE Append(front, e)

\* msg[:140] + "..." if len(msg) > 140 else msg
short_msg(msg) == IF Len(msg) > TruncLen
                  THEN SubSeq(msg, 1, TruncLen) \o "..."
                  ELSE msg

\* the rate cut off after the second decimal instead of rounded
format_rate_truncated(successes, total) ==
    IF total = 0 THEN 0 ELSE (100 * successes) \div total

\* f"{successes / total:.2f}" in hundredths; a tie (remainder exactly one
\* half) needs total to be a multiple of 8 and then rounds to even
format_rate(successes, total) ==
    IF total = 0 THEN 0
    ELSE LET q == (100 * successes) \div total
             r == (100 * successes) % total
         IN IF 2 * r < total THEN q
            ELSE IF 2 * r > total THEN q + 1
            ELSE IF q % 2 = 0 THEN q ELSE q + 1

\* what load_feedback_summary can produce
FirstRunMessage == [kind |-> "first_run", total |-> 0, rate |-> 0, errors |-> <<>>]
UnparsableMessage == [kind |-> "unparsable", total |-> 0, rate |-> 0, errors |-> <<>>]
EmptyMessage == [kind |-> "empty", total |-> 0, rate |-> 0, errors |-> <<>>]
\* an exception leaves the function
Raises == [kind |-> "raises", total |-> 0, rate |-> 0, errors |-> <<>>]
Summary(total, rate, errors) ==
    [kind |-> "summary", total |-> total, rate |-> rate, errors |-> errors]

\* the lines that are not empty after strip()
NonBlank(lines) == SelectSeq(lines, LAMBDA l : l.kind # "blank")

load_feedback_summary(logfile, max_runs) ==
    IF ~logfile.exists THEN FirstRunMessage
    ELSE
    LET parsed == NonBlank(logfile.lines) IN
    IF \E i \in DOMAIN parsed : parsed[i].kind = "garbage" THEN UnparsableMessage
    ELSE IF parsed = <<>> THEN EmptyMessage
    \* r.get on a value that is not a dict
    ELSE IF \E i \in DOMAIN parsed : parsed[i].kind # "object" THEN Raises
    ELSE
    LET objs == [i \in DOMAIN parsed |-> parsed[i].obj] IN
    \* sorted() compares keys of two or more records
    IF /\ Len(objs) >= 2
       /\ \E i, j \in DOMAIN objs :
            ~Comparable(start_time_key(objs[i]), start_time_key(objs[j]))
    THEN Raises
    ELSE
    LET records == last_slice(sorted_by_start_time(objs), max_runs)
        total == Len(records)
        ok(r) == Truthy(dict_get(r, "success", JNull))
        successes == Len(SelectSeq(records, ok))
        failed == SelectSeq(records,
                      LAMBDA r : ~ok(r) /\ Truthy(dict_get(r, "error_message", JNull)))
        errors == [i \in DOMAIN failed |-> failed[i]["error_message"]]
        uniq == unique(errors)
        unique_errors == SubSeq(uniq, 1, IF Len(uniq) < MaxListedErrors
                                         THEN Len(uniq) ELSE MaxListedErrors)
    IN
    \* len(msg) on a value that is not a string
    IF \E i \in DOMAIN unique_errors : unique_errors[i].t # "str" THEN Raises
    ELSE Summary(total, format_rate(successes, total),
                 [i \in DOMAIN unique_errors |-> short_msg(unique_errors[i].s)])


(* ---------------------------- run_analysis ---------------------------- *)
\* str(result) of a crew that finished
ResultTexts == {"Q3 executive report"}
\* str(e) of an exception raised by the crew; an exception may carry no text
ErrorTexts == {"", "LLM provider unavailable"}
ErrorMarker == "ERROR DURING RUN. "

\* what one crew.kickoff() call can do: return (ok), raise an Exception,
\* or be left by a BaseException that is not an Exception (KeyboardInterrupt,
\* SystemExit).  It takes `duration` ticks, and code running inside it
\* shares os.environ with the caller (clears_override: the override
\* variable is gone when the call ends).
KickoffOutcomes ==
    {[kind |-> k[1], text |-> k[2], msg |-> k[3], duration |-> d, clears_override |-> c] :
        k \in ({<<"ok", t, "">> : t \in ResultTexts}
               \cup {<<"exception", "", m>> : m \in ErrorTexts}
               \cup {<<"interrupt", "", "">>}),
        d \in 0..MaxDuration, c \in BOOLEAN}

\* end.strftime("%Y%m%d_%H%M%S"): the wall-clock second of a tick
strftime(tick) == ToString(tick \div TicksPerSecond)
ReportPath(end) == "outputs/reports/report_" \o strftime(end) \o ".txt"

\* open(path, "w").write(text): creates the file or replaces its content
write_file(dir, path, text) == (path :> text) @@ dir
\* open(path, "a").write(line): creates the file when it is absent
append_line(logfile, line) ==
    [exists |-> TRUE, lines |-> Append(logfile.lines, line)]

NoMetrics == [k \in {} |-> JNull]

\* run_analysis that writes report and record only when the crew succeeded
run_analysis_skips_failed_runs(run_tag, start, out, reportfiles, logfile) ==
    IF out.kind # "ok"
    THEN [raised |-> out.kind = "interrupt", metrics |-> NoMetrics,
          reports |-> reportfiles, log |-> logfile]
    ELSE
    LET end == start + out.duration
        report_path == ReportPath(end)
        metrics == [run_tag |-> JStr(run_tag),
                    start_time |-> isoformat(start),
                    end_time |-> isoformat(end),
                    duration_seconds |-> JNum(end - start),
                    report_file |-> JStr(report_path),
                    success |-> JBool(TRUE),
                    error_message |-> JNull]
    IN [raised |-> FALSE, metrics |-> metrics,
        reports |-> write_file(reportfiles, report_path, out.text),
        log |-> append_line(logfile, json_dumps(metrics))]

\* run_analysis with `error_msg = str(e) or None`
run_analysis_drops_empty_message(run_tag, start, out, reportfiles, logfile) ==
    IF out.kind = "interrupt"
    THEN [raised |-> TRUE, metrics |-> NoMetrics,
          reports |-> reportfiles, log |-> logfile]
    ELSE
    LET success == out.kind = "ok"
        error_msg == IF success \/ out.msg = "" THEN JNull ELSE JStr(out.msg)
        result_text == IF success THEN out.text ELSE ErrorMarker \o out.msg
        end == start + out.duration
        report_path == ReportPath(end)
        metrics == [run_tag |-> JStr(run_tag),
                    start_time |-> isoformat(start),
                    end_time |-> isoformat(end),
                    duration_seconds |-> JNum(end - start),
                    report_file |-> JStr(report_path),
                    success |-> JBool(success),
                    error_message |-> error_msg]
    IN [raised |-> FALSE, metrics |-> metrics,
        reports |-> write_file(reportfiles, report_path, result_text),
        log |-> append_line(logfile, json_dumps(metrics))]

\* run_analysis(run_tag) called at tick `start` with the report directory
\* and metrics log as they are; `out` is what crew.kickoff() does.
\* raised: the call is left by an exception instead of returning metrics.
run_analysis(run_tag, start, out, reportfiles, logfile) ==
    IF out.kind = "interrupt"
    THEN [raised |-> TRUE, metrics |-> NoMetrics,
          reports |-> reportfiles, log |-> logfile]
    ELSE
    LET success == out.kind = "ok"
        error_msg == IF success THEN JNull ELSE JStr(out.msg)
        result_text == IF success THEN out.text ELSE ErrorMarker \o out.msg
        end == start + out.duration
        report_path == ReportPath(end)
        metrics == [run_tag |-> JStr(run_tag),
                    start_time |-> isoformat(start),
                    end_time |-> isoformat(end),
                    duration_seconds |-> JNum(end - start),
                    report_file |-> JStr(report_path),
                    success |-> JBool(success),
                    error_message |-> error_msg]
    IN [raised |-> FALSE, metrics |-> metrics,
        reports |-> write_file(reportfiles, report_path, result_text),
        log |-> append_line(logfile, json_dumps(metrics))]

(* ------------------------------- state -------------------------------- *)
VARIABLES
    files,            \* data directory: path -> Csv or Absent
    reports,          \* outputs/reports: path -> text of the file
    metrics_log,      \* outputs/eval/metrics.jsonl: [exists, lines]
    clock,            \* datetime.now() in ticks
    environ,          \* os.environ["EVAL_RAW_FILE_OVERRIDE"] or Unset
    pc,               \* position of the running process
    entry,            \* "main" or "evaluation": the script being run
    procs,            \* processes launched so far
    RAW_FILE,         \* main.RAW_FILE
    feedback_context, \* main.feedback_context (bound into t0)
    BASE_DATASET,     \* evaluation.BASE_DATASET
    scenario,         \* per scenario: pending / running / skipped / returned / raised
    uncaught,         \* the exception that ended the process, or "none"
    printed,          \* what analyze_metrics printed
    crew_history,     \* per appended record: what crew.kickoff() did in that run
    before,           \* content of BASE_DATASET when test_case_missing_dataset began
    arg_max_runs,     \* the max_runs argument given to load_feedback_summary
    result,           \* what the last finished test_case_* function returned
    tool_files,       \* files seen by the tool adapters: path -> table or NoFile
    tool_call,        \* the tool call made: [tool, ...arguments]
    contract,         \* what that call returned
    insight           \* what generate_insights returned

vars == <<files, reports, metrics_log, clock, environ, pc, entry, procs,
          RAW_FILE, feedback_context, BASE_DATASET, scenario, uncaught,
          printed, crew_history, before, arg_max_runs, result,
          tool_files, tool_call, contract, insight>>

\* the state of the tool adapters, untouched by the harness itself
toolvars == <<tool_files, tool_call, contract, insight>>

\* values of `result`
NothingReturned == [kind |-> "nothing", metrics |-> NoMetrics]
PyNone == [kind |-> "None", metrics |-> NoMetrics]
Returned(metrics) == [kind |-> "dict", metrics |-> metrics]

\* no tool has been called
NoCall == [tool |-> "none"]
NoContract == [status |-> "none"]
NoInsight == [kind |-> "none", findings |-> <<>>, footer |-> ""]

Scenarios == <<"baseline", "missing_dataset", "missing_revenue", "large_dataset">>
ScenarioNames == SeqToSet(Scenarios)
\* positions at which run_analysis is about to execute / is executing
RunPcs == {"main_run", "baseline", "md_run", "mr_run", "lg_run"}
Stopped == {"idle", "exited", "crashed"}

NothingPrinted == [total |-> -1, by_tag |-> <<>>]

Init ==
    /\ files \in {[p \in Paths |-> IF p = DefaultRawFile THEN b
                                   ELSE IF p = large_path THEN l ELSE Absent] :
                     b \in BaseDatasets, l \in LargeDatasets}
    /\ reports = <<>>
    /\ metrics_log = [exists |-> FALSE, lines |-> <<>>]
    /\ clock = 0
    /\ environ = Unset
    /\ pc = "idle"
    /\ entry = "none"
    /\ procs = 0
    /\ RAW_FILE = DefaultRawFile
    /\ feedback_context = FirstRunMessage
    /\ BASE_DATASET = DefaultRawFile
    /\ scenario = [n \in ScenarioNames |-> "pending"]
    /\ uncaught = "none"
    /\ printed = NothingPrinted
    /\ crew_history = <<>>
    /\ before = Absent
    /\ arg_max_runs = DefaultMaxRuns
    /\ result = NothingReturned
    /\ tool_files = <<>>
    /\ tool_call = NoCall
    /\ contract = NoContract
    /\ insight = NoInsight

(* ------------------------- process start-up --------------------------- *)
\* values of EVAL_RAW_FILE_OVERRIDE a process may be started with
InitialEnvs == {Unset, large_path}

\* main.py lines 63-70: RAW_FILE is fixed when the module is imported
raw_file_at_import(env) == IF env # Unset THEN env ELSE DefaultRawFile

\* module-level code of main.py, run once per process when main is
\* imported (by `python main.py` or by evaluation.py's import)
ImportMain(env) ==
    /\ environ' = env
    /\ RAW_FILE' = raw_file_at_import(env)
    /\ arg_max_runs' = DefaultMaxRuns
    /\ feedback_context' = load_feedback_summary(metrics_log, arg_max_runs')
    /\ uncaught' = IF feedback_context'.kind = "raises" THEN "Exception" ELSE "none"
    /\ scenario' = [n \in ScenarioNames |-> "pending"]
    /\ printed' = NothingPrinted
    /\ before' = Absent
    /\ procs' = procs + 1
    /\ result' = NothingReturned
    /\ UNCHANGED <<files, reports, metrics_log, clock, crew_history>>
    /\ UNCHANGED toolvars

\* python main.py
StartMain ==
    /\ pc \in Stopped
    /\ procs < MaxProcs
    /\ \E env \in InitialEnvs : ImportMain(env)
    /\ entry' = "main"
    /\ BASE_DATASET' = BASE_DATASET
    /\ pc' = IF uncaught' = "none" THEN "main_run" ELSE "crashed"

\* python evaluation.py: imports main, then binds BASE_DATASET
StartEvaluation ==
    /\ pc \in Stopped
    /\ procs < MaxProcs
    /\ \E env \in InitialEnvs : ImportMain(env)
    /\ entry' = "evaluation"
    /\ BASE_DATASET' = RAW_FILE'
    /\ pc' = IF uncaught' = "none" THEN "baseline" ELSE "crashed"

\* wall-clock time passing between two statements
Tick ==
    /\ pc \notin Stopped
    /\ clock < MaxClock
    /\ clock' = clock + 1
    /\ UNCHANGED <<files, reports, metrics_log, environ, pc, entry, procs,
                   RAW_FILE, feedback_context, BASE_DATASET, scenario,
                   uncaught, printed, crew_history, before, arg_max_runs, tool_files,
                   tool_call, contract, insight, result>>

(* --------------------------- calling a run ---------------------------- *)
RunGuard(out) ==
    /\ Len(metrics_log.lines) < MaxRuns
    /\ clock + out.duration <= MaxClock
    \* the variable is read again only by the del of the two scenarios that
    \* set it, so its loss is drawn for their runs only
    /\ out.clears_override => pc \in {"mr_run", "lg_run"}

\* the override variable as the run leaves it
env_after(out) == IF out.clears_override THEN Unset ELSE environ

\* effects of one run_analysis call on files, log and clock
ApplyRun(r, out) ==
    /\ clock' = clock + out.duration
    /\ reports' = r.reports
    /\ metrics_log' = r.log
    /\ crew_history' = IF out.kind = "interrupt" THEN crew_history
                       ELSE Append(crew_history, out)

Finish(name, raised) == [scenario EXCEPT ![name] = IF raised THEN "raised" ELSE "returned"]

\* if __name__ == "__main__": run_analysis()
MainRun ==
    /\ pc = "main_run"
    /\ \E out \in KickoffOutcomes :
        /\ RunGuard(out)
        /\ LET r == run_analysis("baseline", clock, out, reports, metrics_log) IN
            /\ ApplyRun(r, out)
            /\ environ' = env_after(out)
            /\ pc' = IF r.raised THEN "crashed" ELSE "exited"
            /\ uncaught' = IF r.raised THEN "BaseException" ELSE "none"
    /\ UNCHANGED <<files, entry, procs, RAW_FILE, feedback_context,
                   BASE_DATASET, scenario, printed, before, arg_max_runs, tool_files,
                   tool_call, contract, insight, result>>

(* ----------------------------- scenarios ------------------------------ *)
test_case_baseline ==
    /\ pc = "baseline"
    /\ \E out \in KickoffOutcomes :
        /\ RunGuard(out)
        /\ LET r == run_analysis("baseline", clock, out, reports, metrics_log) IN
            /\ ApplyRun(r, out)
            /\ environ' = env_after(out)
            /\ scenario' = Finish("baseline", r.raised)
            /\ result' = IF r.raised THEN result ELSE Returned(r.metrics)
            /\ pc' = IF r.raised THEN "crashed" ELSE "md_setup"
            /\ uncaught' = IF r.raised THEN "BaseException" ELSE "none"
    /\ UNCHANGED <<files, entry, procs, RAW_FILE, feedback_context,
                   BASE_DATASET, printed, before, arg_max_runs, tool_files,
                   tool_call, contract, insight>>

\* Path.rename(target): the file moves, replacing a file at the target
rename(fs, src, dst) == [fs EXCEPT ![dst] = fs[src], ![src] = Absent]

\* test_case_missing_dataset up to the call of run_analysis
test_case_missing_dataset_setup ==
    /\ pc = "md_setup"
    /\ IF ~files[BASE_DATASET].exists
       THEN /\ scenario' = [scenario EXCEPT !["missing_dataset"] = "skipped"]
            /\ result' = PyNone
            /\ pc' = "mr_setup"
            /\ UNCHANGED <<files, before>>
       ELSE /\ before' = files[BASE_DATASET]
            /\ files' = rename(files, BASE_DATASET, with_suffix_bak(BASE_DATASET))
            /\ scenario' = [scenario EXCEPT !["missing_dataset"] = "running"]
            /\ UNCHANGED result
            /\ pc' = "md_run"
    /\ UNCHANGED <<reports, metrics_log, clock, environ, entry, procs, RAW_FILE,
                   feedback_context, BASE_DATASET, uncaught, printed, crew_history,
                   arg_max_runs, tool_files,
                   tool_call, contract, insight>>

\* a finally block that leaves the dataset where it was moved to
restore_dataset_skipped(fs, base) == [raised |-> FALSE, files |-> fs]

\* the finally block of test_case_missing_dataset
restore_dataset(fs, base) ==
    LET temp_path == with_suffix_bak(base) IN
    IF fs[temp_path].exists
    THEN [raised |-> FALSE, files |-> rename(fs, temp_path, base)]
    ELSE [raised |-> TRUE, files |-> fs]

\* test_case_missing_dataset: try run_analysis / finally restore / return
test_case_missing_dataset_run ==
    /\ pc = "md_run"
    /\ \E out \in KickoffOutcomes :
        /\ RunGuard(out)
        /\ LET r == run_analysis("missing_dataset", clock, out, reports, metrics_log)
               f == restore_dataset(files, BASE_DATASET)
           IN
            /\ ApplyRun(r, out)
            /\ environ' = env_after(out)
            /\ files' = f.files
            /\ scenario' = Finish("missing_dataset", r.raised \/ f.raised)
            /\ result' = IF r.raised \/ f.raised THEN result ELSE Returned(r.metrics)
            /\ pc' = IF r.raised \/ f.raised THEN "crashed" ELSE "mr_setup"
            /\ uncaught' = IF f.raised THEN "FileNotFoundError"
                           ELSE IF r.raised THEN "BaseException" ELSE "none"
    /\ UNCHANGED <<entry, procs, RAW_FILE, feedback_context, BASE_DATASET,
                   printed, before, arg_max_runs, tool_files,
                   tool_call, contract, insight>>

\* the variant written by df.drop(columns=["revenue"]).to_csv(alt_path)
variant_without(csv, column) == Csv(drop_columns(csv.cols, column), csv.rows)

\* test_case_missing_revenue_column up to the call of run_analysis
test_case_missing_revenue_column_setup ==
    /\ pc = "mr_setup"
    /\ IF \/ ~files[BASE_DATASET].exists
          \/ "revenue" \notin SeqToSet(files[BASE_DATASET].cols)
       THEN /\ scenario' = [scenario EXCEPT !["missing_revenue"] = "skipped"]
            /\ result' = PyNone
            /\ pc' = "lg_setup"
            /\ UNCHANGED <<files, environ>>
       ELSE /\ files' = [files EXCEPT ![alt_path] =
                            variant_without(files[BASE_DATASET], "revenue")]
            /\ environ' = alt_path
            /\ scenario' = [scenario EXCEPT !["missing_revenue"] = "running"]
            /\ UNCHANGED result
            /\ pc' = "mr_run"
    /\ UNCHANGED <<reports, metrics_log, clock, entry, procs, RAW_FILE,
                   feedback_context, BASE_DATASET, uncaught, printed,
                   crew_history, before, arg_max_runs, tool_files,
                   tool_call, contract, insight>>

\* a cleanup that leaves the override variable set
del_override_kept(env) == [raised |-> FALSE, environ |-> env]

\* del os.environ["EVAL_RAW_FILE_OVERRIDE"]: KeyError when it is not set
del_override(env) ==
    IF env = Unset THEN [raised |-> TRUE, environ |-> env]
    ELSE [raised |-> FALSE, environ |-> Unset]

\* the finally block of test_case_missing_revenue_column: the unlink is
\* reached only when the del before it did not raise
cleanup_missing_revenue(env, fs) ==
    LET d == del_override(env) IN
    IF d.raised THEN [raised |-> TRUE, environ |-> d.environ, files |-> fs]
    ELSE [raised |-> FALSE, environ |-> d.environ,
          files |-> [fs EXCEPT ![alt_path] = Absent]]

\* test_case_missing_revenue_column: try run_analysis / finally / return
test_case_missing_revenue_column_run ==
    /\ pc = "mr_run"
    /\ \E out \in KickoffOutcomes :
        /\ RunGuard(out)
        /\ LET r == run_analysis("missing_revenue", clock, out, reports, metrics_log)
               c == cleanup_missing_revenue(env_after(out), files)
           IN
            /\ ApplyRun(r, out)
            /\ environ' = c.environ
            /\ files' = c.files
            /\ scenario' = Finish("missing_revenue", r.raised \/ c.raised)
            /\ result' = IF r.raised \/ c.raised THEN result ELSE Returned(r.metrics)
            /\ pc' = IF r.raised \/ c.raised THEN "crashed" ELSE "lg_setup"
            /\ uncaught' = IF c.raised THEN "KeyError"
                           ELSE IF r.raised THEN "BaseException" ELSE "none"
    /\ UNCHANGED <<entry, procs, RAW_FILE, feedback_context, BASE_DATASET,
                   printed, before, arg_max_runs, tool_files,
                   tool_call, contract, insight>>

\* test_case_large_dataset up to the call of run_analysis
\* test_case_large_dataset that sets the override before it looks for the file
test_case_large_dataset_sets_override_first ==
    /\ pc = "lg_setup"
    /\ environ' = large_path
    /\ IF ~files[large_path].exists
       THEN /\ scenario' = [scenario EXCEPT !["large_dataset"] = "skipped"]
            /\ result' = PyNone
            /\ pc' = "analyze"
       ELSE /\ scenario' = [scenario EXCEPT !["large_dataset"] = "running"]
            /\ UNCHANGED result
            /\ pc' = "lg_run"
    /\ UNCHANGED <<files, reports, metrics_log, clock, entry, procs, RAW_FILE,
                   feedback_context, BASE_DATASET, uncaught, printed,
                   crew_history, before, arg_max_runs, tool_files,
                   tool_call, contract, insight>>

test_case_large_dataset_setup ==
    /\ pc = "lg_setup"
    /\ IF ~files[large_path].exists
       THEN /\ scenario' = [scenario EXCEPT !["large_dataset"] = "skipped"]
            /\ result' = PyNone
            /\ pc' = "analyze"
            /\ UNCHANGED environ
       ELSE /\ environ' = large_path
            /\ scenario' = [scenario EXCEPT !["large_dataset"] = "running"]
            /\ UNCHANGED result
            /\ pc' = "lg_run"
    /\ UNCHANGED <<files, reports, metrics_log, clock, entry, procs, RAW_FILE,
                   feedback_context, BASE_DATASET, uncaught, printed,
                   crew_history, before, arg_max_runs, tool_files,
                   tool_call, contract, insight>>

\* test_case_large_dataset: try run_analysis / finally del / return
test_case_large_dataset_run ==
    /\ pc = "lg_run"
    /\ \E out \in KickoffOutcomes :
        /\ RunGuard(out)
        /\ LET r == run_analysis("large_dataset", clock, out, reports, metrics_log)
               d == del_override(env_after(out))
           IN
            /\ ApplyRun(r, out)
            /\ environ' = d.environ
            /\ scenario' = Finish("large_dataset", r.raised \/ d.raised)
            /\ result' = IF r.raised \/ d.raised THEN result ELSE Returned(r.metrics)
            /\ pc' = IF r.raised \/ d.raised THEN "crashed" ELSE "analyze"
            /\ uncaught' = IF d.raised THEN "KeyError"
                           ELSE IF r.raised THEN "BaseException" ELSE "none"
    /\ UNCHANGED <<files, entry, procs, RAW_FILE, feedback_context,
                   BASE_DATASET, printed, before, arg_max_runs, tool_files,
                   tool_call, contract, insight>>

(* --------------------------- analyze_metrics -------------------------- *)
\* "Total runs" and "Runs by tag" of the evaluation summary
metrics_summary(logfile) ==
    LET recs == NonBlank(logfile.lines)
        tags == {recs[i].obj["run_tag"].s : i \in DOMAIN recs}
    IN [total |-> Len(recs),
        by_tag |-> [t \in tags |->
                      Cardinality({i \in DOMAIN recs : recs[i].obj["run_tag"].s = t})]]

analyze_metrics ==
    /\ pc = "analyze"
    /\ printed' = IF ~metrics_log.exists \/ NonBlank(metrics_log.lines) = <<>>
                  THEN NothingPrinted
                  ELSE metrics_summary(metrics_log)
    /\ pc' = "exited"
    /\ UNCHANGED <<files, reports, metrics_log, clock, environ, entry, procs,
                   RAW_FILE, feedback_context, BASE_DATASET, scenario,
                   uncaught, crew_history, before, arg_max_runs, tool_files,
                   tool_call, contract, insight, result>>

Next ==
    \/ StartMain
    \/ StartEvaluation
    \/ Tick
    \/ MainRun
    \/ test_case_baseline
    \/ test_case_missing_dataset_setup
    \/ test_case_missing_dataset_run
    \/ test_case_missing_revenue_column_setup
    \/ test_case_missing_revenue_column_run
    \/ test_case_large_dataset_setup
    \/ test_case_large_dataset_run
    \/ analyze_metrics

Spec == Init /\ [][Next]_vars

TypeOK ==
    /\ pc \in Stopped \cup RunPcs \cup {"md_setup", "mr_setup", "lg_setup", "analyze"}
    /\ clock \in 0..MaxClock
    /\ environ \in {Unset, alt_path, large_path}
    /\ Len(metrics_log.lines) <= MaxRuns

(* -------------------- load_feedback_summary alone --------------------- *)
\* longest log file drawn
MaxLines == 3

\* records a log file may hold: the two kinds run_analysis writes, and
\* objects whose fields are missing or of another type
FbRecords ==
    {[run_tag |-> JStr("baseline"), start_time |-> isoformat(0),
      end_time |-> isoformat(1), duration_seconds |-> JNum(1),
      report_file |-> JStr(ReportPath(1)), success |-> JBool(TRUE),
      error_message |-> JNull],
     [run_tag |-> JStr("missing_dataset"), start_time |-> isoformat(1),
      end_time |-> isoformat(1), duration_seconds |-> JNum(0),
      report_file |-> JStr(ReportPath(1)), success |-> JBool(FALSE),
      error_message |-> JStr("LLM provider unavailable")],
     [success |-> JBool(TRUE)],
     [start_time |-> JNull, success |-> JBool(TRUE)],
     [start_time |-> JNum(7), success |-> JBool(TRUE)],
     [start_time |-> isoformat(2), success |-> JBool(FALSE),
      error_message |-> JNum(500)]}

FbLines == {BlankLine, GarbageLine, ScalarLine(JNum(42))}
           \cup {json_dumps(r) : r \in FbRecords}

RECURSIVE SeqsUpTo(_, _)
\* all sequences over S of length at most n
SeqsUpTo(S, n) ==
    IF n = 0 THEN {<<>>}
    ELSE LET shorter == SeqsUpTo(S, n - 1)
         IN shorter \cup {Append(q, x) : q \in shorter, x \in S}

FbLogs == {[exists |-> FALSE, lines |-> <<>>]}
          \cup {[exists |-> TRUE, lines |-> l] : l \in SeqsUpTo(FbLines, MaxLines)}

\* a log file with arbitrary content, nothing running
InitFeedback ==
    /\ metrics_log \in FbLogs
    /\ arg_max_runs \in {0, 1, 2, DefaultMaxRuns}
    /\ files = [p \in Paths |-> Absent]
    /\ reports = <<>>
    /\ clock = 0
    /\ environ = Unset
    /\ pc = "idle"
    /\ entry = "none"
    /\ procs = 0
    /\ RAW_FILE = DefaultRawFile
    /\ feedback_context = FirstRunMessage
    /\ BASE_DATASET = DefaultRawFile
    /\ scenario = [n \in ScenarioNames |-> "pending"]
    /\ uncaught = "none"
    /\ printed = NothingPrinted
    /\ crew_history = <<>>
    /\ before = Absent
    /\ result = NothingReturned
    /\ tool_files = <<>>
    /\ tool_call = NoCall
    /\ contract = NoContract
    /\ insight = NoInsight

\* one call load_feedback_summary(log_path, max_runs)
CallLoadFeedbackSummary ==
    /\ pc = "idle"
    /\ feedback_context' = load_feedback_summary(metrics_log, arg_max_runs)
    /\ pc' = "summarized"
    /\ UNCHANGED <<files, reports, metrics_log, clock, environ, entry, procs,
                   RAW_FILE, BASE_DATASET, scenario, uncaught, printed,
                   crew_history, before, arg_max_runs, tool_files,
                   tool_call, contract, insight, result>>

NextFeedback == CallLoadFeedbackSummary

SpecFeedback == InitFeedback /\ [][NextFeedback]_vars

(* -------------- load_feedback_summary on well-formed logs -------------- *)
MaxRecords == 5

\* str(e) of 140 characters, and two longer ones that agree on the first 140
Msg140 == LET x10 == "xxxxxxxxxx"
              x70 == x10 \o x10 \o x10 \o x10 \o x10 \o x10 \o x10
          IN x70 \o x70
MsgLong1 == Msg140 \o "1"
MsgLong2 == Msg140 \o "2"

\* how a run ended: crew returned, or raised an Exception with text msg
Succeeded == [success |-> TRUE, msg |-> ""]
Failed(msg) == [success |-> FALSE, msg |-> msg]
ShortOutcomes == {Succeeded} \cup {Failed(m) : m \in {"A", "B", "C", "D"}}
LongOutcomes == {Succeeded} \cup
                {Failed(m) : m \in {"", "A", Msg140, MsgLong1, MsgLong2}}

\* the record run_analysis writes for a run that started at tick k
WfRecord(o, k) ==
    [run_tag |-> JStr("manual"), start_time |-> isoformat(k),
     end_time |-> isoformat(k), duration_seconds |-> JNum(0),
     report_file |-> JStr(ReportPath(k)), success |-> JBool(o.success),
     error_message |-> IF o.success THEN JNull ELSE JStr(o.msg)]

\* start times along the file: rising (one process appending), falling
\* (records of a later-started run written first), or all in one tick
Orderings == {"rising", "falling", "same"}
StartOf(ord, i, n) == CASE ord = "rising" -> i
                        [] ord = "falling" -> n - i
                        [] OTHER -> 0

WfLog(outs, ord) ==
    [exists |-> TRUE,
     lines |-> [i \in 1..Len(outs) |->
                   json_dumps(WfRecord(outs[i], StartOf(ord, i, Len(outs))))]]

WfLogs == {WfLog(outs, ord) : outs \in SeqsUpTo(ShortOutcomes, MaxRecords)
                                      \cup SeqsUpTo(LongOutcomes, MaxLines),
                              ord \in Orderings}

\* a log file of records as run_analysis writes them, nothing running
InitSummary ==
    /\ metrics_log \in WfLogs
    /\ arg_max_runs \in {0, 1, 2, 3, DefaultMaxRuns}
    /\ files = [p \in Paths |-> Absent]
    /\ reports = <<>>
    /\ clock = 0
    /\ environ = Unset
    /\ pc = "idle"
    /\ entry = "none"
    /\ procs = 0
    /\ RAW_FILE = DefaultRawFile
    /\ feedback_context = FirstRunMessage
    /\ BASE_DATASET = DefaultRawFile
    /\ scenario = [n \in ScenarioNames |-> "pending"]
    /\ uncaught = "none"
    /\ printed = NothingPrinted
    /\ crew_history = <<>>
    /\ before = Absent
    /\ result = NothingReturned
    /\ tool_files = <<>>
    /\ tool_call = NoCall
    /\ contract = NoContract
    /\ insight = NoInsight

SpecSummary == InitSummary /\ [][NextFeedback]_vars

(* ---------------------------- tool adapters ---------------------------- *)
\* most data rows of a CSV file handed to a tool
MaxRows == 2

RECURSIVE str_replace(_, _, _)
\* s.replace(old, new): every occurrence, left to right, not overlapping
str_replace(s, old, new) ==
    IF Len(s) < Len(old) THEN s
    ELSE IF SubSeq(s, 1, Len(old)) = old
         THEN new \o str_replace(SubSeq(s, Len(old) + 1, Len(s)), old, new)
         ELSE SubSeq(s, 1, 1) \o str_replace(SubSeq(s, 2, Len(s)), old, new)

\* old in s
contains(s, old) ==
    \E i \in 1..(Len(s) - Len(old) + 1) : SubSeq(s, i, i + Len(old) - 1) = old
\* s.endswith(suffix)
endswith(s, suffix) ==
    /\ Len(s) >= Len(suffix)
    /\ SubSeq(s, Len(s) - Len(suffix) + 1, Len(s)) = suffix

\* a cell of a data frame: a number, or NaN for a missing value
Cell(v) == [nan |-> FALSE, v |-> v]
NaN == [nan |-> TRUE, v |-> 0]

\* a CSV file that parses: header and data rows (row = column -> cell)
Table(cols, rows) == [kind |-> "csv", cols |-> cols, rows |-> rows]
\* a file pd.read_csv cannot parse (no header, binary content)
Garbage == [kind |-> "garbage", cols |-> <<>>, rows |-> <<>>]
\* a chart written by fig.write_html
Html(chart_type, x, y) ==
    [kind |-> "html", cols |-> <<chart_type, x, y>>, rows |-> <<>>]

\* the columns read_csv gives a numeric dtype: date holds text; a frame
\* without rows has only object columns
NumericNames == {"revenue", "orders"}
numeric_columns(df) ==
    IF df.rows = <<>> THEN <<>>
    ELSE SelectSeq(df.cols, LAMBDA c : c \in NumericNames)

\* df[c] as a sequence of cells, and its values that are not NaN
column(df, c) == [i \in DOMAIN df.rows |-> df.rows[i][c]]
dropna(cells) == SelectSeq(cells, LAMBDA x : ~x.nan)

RECURSIVE sort_values(_)
\* cells that are numbers, ascending
sort_values(cells) ==
    IF cells = <<>> THEN <<>>
    ELSE LET least == CHOOSE i \in DOMAIN cells :
                          \A j \in DOMAIN cells : cells[i].v <= cells[j].v
             rest == [j \in 1..(Len(cells) - 1) |->
                         IF j < least THEN cells[j] ELSE cells[j + 1]]
         IN <<cells[least]>> \o sort_values(rest)

\* Series.median(): NaN skipped; NaN when nothing is left; the mean of the
\* two middle values is whole for the cell values drawn here
median(cells) ==
    LET vals == sort_values(dropna(cells))
        n == Len(vals)
    IN IF n = 0 THEN NaN
       ELSE IF n % 2 = 1 THEN vals[(n + 1) \div 2]
       ELSE Cell((vals[n \div 2].v + vals[n \div 2 + 1].v) \div 2)

\* df[col] = df[col].fillna(median) for every numeric column
fill_numeric(df) ==
    LET num == SeqToSet(numeric_columns(df))
        fill(c, x) == IF c \in num /\ x.nan THEN median(column(df, c)) ELSE x
    IN Table(df.cols, [i \in DOMAIN df.rows |->
                          [c \in DOMAIN df.rows[i] |-> fill(c, df.rows[i][c])]])

\* df.drop_duplicates(): the first of equal rows stays (NaN equals NaN)
drop_duplicates(df) ==
    LET keep == {i \in DOMAIN df.rows :
                    \A j \in 1..(i - 1) : df.rows[j] # df.rows[i]}
        nth(k) == CHOOSE i \in keep : Cardinality({j \in keep : j <= i}) = k
    IN Table(df.cols, [k \in 1..Cardinality(keep) |-> df.rows[nth(k)]])

\* pd.read_csv(path) works
readable(fs, path) == path \in DOMAIN fs /\ fs[path].kind = "csv"

\* an error contract that still carries a path
ErrorContractWithPath(message) ==
    [status |-> "error", message |-> message, path |-> ""]

\* a status=error contract
ErrorContract(message) == [status |-> "error", message |-> message]
\* an exception leaves the tool
ToolRaises == [status |-> "raised"]
\* outcomes of a call into the file system or a library
IoOutcomes == {"ok", "fails"}

\* clean_data(data_path) on file system fs; to_csv does as `io` says
clean_data(fs, data_path, io) ==
    IF ~readable(fs, data_path)
    THEN [contract |-> ErrorContract("Failed to read CSV at " \o data_path),
          files |-> fs]
    ELSE
    LET df == fs[data_path]
        original == Len(df.rows)
        cleaned == drop_duplicates(fill_numeric(df))
        clean_path == str_replace(data_path, ".csv", "_cleaned.csv")
    IN IF io = "fails"
       THEN [contract |-> ErrorContract("Failed to write cleaned CSV to "
                                        \o clean_path),
             files |-> fs]
       ELSE [contract |-> [status |-> "ok", original_rows |-> original,
                           clean_rows |-> Len(cleaned.rows),
                           clean_path |-> clean_path],
             files |-> (clean_path :> cleaned) @@ fs]

\* a float result, kept as far as the code looks at it: NaN or not, and
\* the sign
Float(sign) == [nan |-> FALSE, sign |-> sign]
FNaN == [nan |-> TRUE, sign |-> 0]
Sign(k) == IF k > 0 THEN 1 ELSE IF k < 0 THEN 0 - 1 ELSE 0
\* f > 0 and f < 0 on floats: both false on NaN
gt0(f) == ~f.nan /\ f.sign = 1
lt0(f) == ~f.nan /\ f.sign = 0 - 1

RECURSIVE sum(_)
\* sum of a sequence of integers
sum(ks) == IF ks = <<>> THEN 0 ELSE ks[Len(ks)] + sum(SubSeq(ks, 1, Len(ks) - 1))

\* n * sum(a*b) - sum(a) * sum(b): n*n times the covariance of a and b
cov_n(a, b) ==
    Len(a) * sum([i \in DOMAIN a |-> a[i] * b[i]]) - sum(a) * sum(b)

\* Series.mean() and Series.std() (ddof = 1), NaN skipped
mean(cells) ==
    LET vals == dropna(cells)
    IN IF vals = <<>> THEN FNaN ELSE Float(Sign(sum([i \in DOMAIN vals |-> vals[i].v])))
std(cells) ==
    LET vals == dropna(cells)
        ks == [i \in DOMAIN vals |-> vals[i].v]
    IN IF Len(vals) <= 1 THEN FNaN ELSE Float(Sign(cov_n(ks, ks)))

\* stats.linregress(x, y) for x = 0..n-1 and n >= 1 values y: slope,
\* r and p as scipy computes them from the covariance matrix
linregress(ys) ==
    LET n == Len(ys)
        xs == [i \in 1..n |-> i - 1]
        has_nan == \E i \in DOMAIN ys : ys[i].nan
        ks == [i \in DOMAIN ys |-> ys[i].v]
        ssxm == cov_n(xs, xs)
        ssxym == cov_n(xs, ks)
        ssym == cov_n(ks, ks)
        r == IF ssxm = 0 THEN Float(0)
             ELSE IF has_nan THEN FNaN
             ELSE IF ssym = 0 THEN Float(0)
             ELSE Float(Sign(ssxym))
        \* ssxym / ssxm: 0.0 / 0.0 and NaN / x are NaN, no exception
        slope == IF ssxm = 0 \/ has_nan THEN FNaN ELSE Float(Sign(ssxym))
        \* n = 2 is special-cased; otherwise a t test with n - 2 degrees of
        \* freedom, NaN for n = 1
        p == IF n = 2 THEN (IF ys[1] = ys[2] /\ ~has_nan THEN Float(1) ELSE Float(0))
             ELSE IF n = 1 \/ has_nan THEN FNaN
             ELSE Float(1)
    IN [slope |-> slope, r |-> r, p |-> p]

\* Series.corr(other): Pearson over the rows where both are numbers
corr(a, b) ==
    LET both == {i \in DOMAIN a : ~a[i].nan /\ ~b[i].nan}
        nth(k) == CHOOSE i \in both : Cardinality({j \in both : j <= i}) = k
        as == [k \in 1..Cardinality(both) |-> a[nth(k)].v]
        bs == [k \in 1..Cardinality(both) |-> b[nth(k)].v]
    IN IF Cardinality(both) < 2 \/ cov_n(as, as) = 0 \/ cov_n(bs, bs) = 0
       THEN FNaN
       ELSE Float(Sign(cov_n(as, bs)))

\* r_val ** 2
square(f) == IF f.nan THEN FNaN ELSE Float(f.sign * f.sign)

\* direction that takes every slope that is not >= 0 for a decrease
direction_by_negation(slope) ==
    IF gt0(slope) THEN "increasing"
    ELSE IF slope.nan \/ lt0(slope) THEN "decreasing"
    ELSE "stable"

\* lines 171-177
direction(slope) ==
    IF gt0(slope) THEN "increasing"
    ELSE IF lt0(slope) THEN "decreasing"
    ELSE "stable"

\* analyze_statistics(data_path, target) on file system fs
analyze_statistics(fs, data_path, target) ==
    IF ~readable(fs, data_path)
    THEN ErrorContract("Failed to read CSV at " \o data_path)
    ELSE
    LET df == fs[data_path] IN
    IF target \notin SeqToSet(df.cols)
    THEN [status |-> "error",
          message |-> "Target column '" \o target \o "' not found in dataset.",
          available_columns |-> df.cols]
    \* mean() of a text column and linregress of no rows raise
    ELSE IF target \notin SeqToSet(numeric_columns(df))
    THEN ErrorContract("Error during statistical analysis")
    ELSE
    LET y == column(df, target)
        reg == linregress(y)
        others == SeqToSet(numeric_columns(df)) \ {target}
    IN [status |-> "ok",
        target |-> target,
        mean |-> mean(y),
        std |-> std(y),
        trend |-> [slope |-> reg.slope,
                   r2 |-> square(reg.r),
                   p_value |-> reg.p,
                   direction |-> direction(reg.slope)],
        correlations |-> [c \in others |-> corr(y, column(df, c))]]

RECURSIVE lower(_)
\* s.lower()
lower(s) ==
    IF s = "" THEN ""
    ELSE LET uppercase == "ABCDEFGHIJKLMNOPQRSTUVWXYZ"
             lowercase == "abcdefghijklmnopqrstuvwxyz"
             c == SubSeq(s, 1, 1)
             up == {i \in 1..Len(uppercase) : SubSeq(uppercase, i, i) = c}
             lc == IF up = {} THEN c
                   ELSE LET k == CHOOSE i \in up : TRUE
                        IN SubSeq(lowercase, k, k)
         IN lc \o lower(SubSeq(s, 2, Len(s)))

RECURSIVE name(_)
\* Path(p).name: what follows the last "/"
name(p) ==
    IF ~contains(p, "/") THEN p
    ELSE name(SubSeq(p, 2, Len(p)))

\* Path(data_dir).exists(): some file lies under it
dir_exists(fs, data_dir) ==
    \E p \in DOMAIN fs : SubSeq(p, 1, Len(data_dir) + 1) = data_dir \o "/"
\* base.rglob("*.csv")
candidates(fs, data_dir) ==
    {p \in DOMAIN fs : /\ SubSeq(p, 1, Len(data_dir) + 1) = data_dir \o "/"
                       /\ endswith(name(p), ".csv")}
\* the candidates whose name holds dataset_name, letter case ignored
matched(fs, dataset_name, data_dir) ==
    {p \in candidates(fs, data_dir) : contains(lower(name(p)), lower(dataset_name))}

\* load_dataset(dataset_name, data_dir) on file system fs; `first` is the
\* match rglob lists first (directory order)
load_dataset(fs, dataset_name, data_dir, first) ==
    IF ~dir_exists(fs, data_dir)
    THEN ErrorContract("Data directory not found: " \o data_dir)
    ELSE IF matched(fs, dataset_name, data_dir) = {}
    THEN [status |-> "error",
          message |-> "No CSV files matching '" \o dataset_name \o "' under "
                      \o data_dir,
          searched_files |-> candidates(fs, data_dir)]
    ELSE IF ~readable(fs, first)
    THEN ErrorContract("Failed to read CSV at " \o first)
    ELSE [status |-> "ok", path |-> first, rows |-> Len(fs[first].rows),
          columns |-> fs[first].cols]

\* where create_chart writes
chart_path(chart_type, y) ==
    "outputs/visualizations/" \o chart_type \o "_" \o y \o ".html"

\* create_chart(data_path, chart_type, x, y) on file system fs; px, mkdir
\* and write say what plotly, output_dir.mkdir and fig.write_html do
create_chart(fs, data_path, chart_type, x, y, px, mkdir, write) ==
    IF ~readable(fs, data_path)
    THEN [contract |-> ErrorContract("Failed to read CSV at " \o data_path),
          files |-> fs]
    ELSE IF x \notin SeqToSet(fs[data_path].cols) \/ y \notin SeqToSet(fs[data_path].cols)
    THEN [contract |->
              [status |-> "error",
               message |-> "Columns '" \o x \o "' or '" \o y
                           \o "' not found in dataset.",
               available_columns |-> fs[data_path].cols],
          files |-> fs]
    ELSE IF px = "fails"
    THEN [contract |-> ErrorContract("Error while creating chart"), files |-> fs]
    \* mkdir is outside every try
    ELSE IF mkdir = "fails"
    THEN [contract |-> ToolRaises, files |-> fs]
    ELSE IF write = "fails"
    THEN [contract |-> ErrorContract("Failed to save chart HTML to "
                                     \o chart_path(chart_type, y)),
          files |-> fs]
    ELSE [contract |-> [status |-> "ok", chart_type |-> chart_type, x |-> x,
                        y |-> y, path |-> chart_path(chart_type, y)],
          files |-> (chart_path(chart_type, y) :> Html(chart_type, x, y)) @@ fs]

(* -------------------------- generate_insights -------------------------- *)
\* texts handed to generate_insights: text that is not JSON, JSON that is
\* not an object, and json.dumps of a dict
PlainText == [json |-> "no", value |-> <<>>]
JsonScalarText == [json |-> "scalar", value |-> <<>>]
JsonArrayText == [json |-> "array", value |-> <<>>]
dumps(d) == [json |-> "object", value |-> d]

ErrorQuality == "Confidence: 40 percent | Quality: Limited (tool error)"
GoodQuality == "Confidence: 85 percent | Quality: Good"
UnknownError == "Unknown analysis error."
NoFields == "No structured analysis fields were found in the input."

\* the report text: its findings and its last line
Report(findings, footer) ==
    [kind |-> "report", findings |-> findings, footer |-> footer]
InsightRaises == [kind |-> "raised", findings |-> <<>>, footer |-> ""]

\* generate_insights(analysis_results) for a str argument
generate_insights(analysis_results) ==
    \* data.get on an int, str, list, None
    IF analysis_results.json \in {"scalar", "array"} THEN InsightRaises
    ELSE
    LET data == IF analysis_results.json = "no"
                THEN [raw |-> "text"]
                ELSE analysis_results.value
        has(k) == k \in DOMAIN data
    IN IF has("status") /\ data["status"] = "error"
       THEN Report(<<"Analysis tool reported an error: "
                     \o (IF has("message") THEN data["message"] ELSE UnknownError)>>,
                   ErrorQuality)
       ELSE
       LET trend == IF has("trend")
                    THEN <<"Revenue trend is " \o data["trend"].direction>>
                    ELSE <<>>
           correlations ==
               IF has("correlations") /\ DOMAIN data["correlations"] # {}
               THEN <<"Strongest correlation is between revenue and a column">>
               ELSE <<>>
           insights == trend \o correlations
       IN Report(IF insights = <<>> THEN <<NoFields>> ELSE insights, GoodQuality)

(* --------------------------- calling the tools -------------------------- *)
BakPath == with_suffix_bak(DefaultRawFile)
CapitalPath == DATA_DIR \o "/Ecommerce_Q3_2024.csv"
ToolPaths == {DefaultRawFile, BakPath, CapitalPath}

\* rows of a frame with the given columns
CellsOf(c) == CASE c = "date" -> {Cell(1), Cell(2)}
                [] c = "revenue" -> {NaN, Cell(1), Cell(3)}
                [] OTHER -> {Cell(1), Cell(3)}
RowsOf(cols) == {r \in [SeqToSet(cols) -> {NaN, Cell(1), Cell(2), Cell(3)}] :
                     \A c \in SeqToSet(cols) : r[c] \in CellsOf(c)}
Headers == {<<"date", "revenue", "orders">>, <<"date", "orders">>}
Tables == {Table(cols, rows) : cols \in Headers, rows \in {<<>>}} \cup
          UNION {{Table(cols, rows) : rows \in SeqsUpTo(RowsOf(cols), MaxRows)} :
                    cols \in Headers}

\* what the tools find on disk: nothing, one file, or the dataset and a
\* neighbour whose name matches the same hint
ToolFileSystems ==
    {<<>>} \cup {(p :> f) : p \in ToolPaths, f \in {Garbage} \cup Tables}
           \cup {(DefaultRawFile :> f) @@ (CapitalPath :> g) :
                     f \in {Table(<<"date", "orders">>, <<>>)},
                     g \in {Garbage, Table(<<"date", "revenue", "orders">>, <<>>)}}

InitTools ==
    /\ tool_files \in ToolFileSystems
    /\ tool_call = NoCall
    /\ contract = NoContract
    /\ insight = NoInsight
    /\ metrics_log = [exists |-> FALSE, lines |-> <<>>]
    /\ arg_max_runs = DefaultMaxRuns
    /\ files = [p \in Paths |-> Absent]
    /\ reports = <<>>
    /\ clock = 0
    /\ environ = Unset
    /\ pc = "idle"
    /\ entry = "none"
    /\ procs = 0
    /\ RAW_FILE = DefaultRawFile
    /\ feedback_context = FirstRunMessage
    /\ BASE_DATASET = DefaultRawFile
    /\ scenario = [n \in ScenarioNames |-> "pending"]
    /\ uncaught = "none"
    /\ printed = NothingPrinted
    /\ crew_history = <<>>
    /\ before = Absent
    /\ result = NothingReturned

\* everything but the tools' state
harnessvars == <<files, reports, metrics_log, clock, environ, entry, procs,
                 RAW_FILE, feedback_context, BASE_DATASET, scenario, uncaught,
                 printed, crew_history, before, arg_max_runs, result>>

DatasetNames == {DATASET_HINT, "ECOMMERCE", "inventory"}
DataDirs == {DATA_DIR, "archive"}
Targets == {"revenue", "date", "profit"}
ChartTypes == {"line", "scatter"}

CallLoadDataset ==
    /\ pc = "idle"
    /\ \E dataset_name \in DatasetNames, data_dir \in DataDirs :
         \E first \in IF matched(tool_files, dataset_name, data_dir) = {}
                      THEN {""}
                      ELSE matched(tool_files, dataset_name, data_dir) :
            /\ tool_call' = [tool |-> "load_dataset",
                             dataset_name |-> dataset_name, data_dir |-> data_dir]
            /\ contract' = load_dataset(tool_files, dataset_name, data_dir, first)
    /\ pc' = "called"
    /\ UNCHANGED <<tool_files, insight>>
    /\ UNCHANGED harnessvars

CallCleanData ==
    /\ pc = "idle"
    /\ \E data_path \in ToolPaths, io \in IoOutcomes :
         LET r == clean_data(tool_files, data_path, io)
         IN /\ tool_call' = [tool |-> "clean_data", data_path |-> data_path]
            /\ contract' = r.contract
            /\ tool_files' = r.files
    /\ pc' = "called"
    /\ UNCHANGED insight
    /\ UNCHANGED harnessvars

CallAnalyzeStatistics ==
    /\ pc = "idle"
    /\ \E data_path \in ToolPaths, target \in Targets :
         /\ tool_call' = [tool |-> "analyze_statistics",
                          data_path |-> data_path, target |-> target]
         /\ contract' = analyze_statistics(tool_files, data_path, target)
    /\ pc' = "called"
    /\ UNCHANGED <<tool_files, insight>>
    /\ UNCHANGED harnessvars

CallCreateChart ==
    /\ pc = "idle"
    /\ \E data_path \in ToolPaths, chart_type \in ChartTypes, y \in Targets,
          px \in IoOutcomes, mkdir \in IoOutcomes, write \in IoOutcomes :
         LET r == create_chart(tool_files, data_path, chart_type, "date", y,
                               px, mkdir, write)
         IN /\ tool_call' = [tool |-> "create_chart", data_path |-> data_path,
                             chart_type |-> chart_type, x |-> "date", y |-> y]
            /\ contract' = r.contract
            /\ tool_files' = r.files
    /\ pc' = "called"
    /\ UNCHANGED insight
    /\ UNCHANGED harnessvars

\* texts that do not come from a tool
LooseTexts == {PlainText, JsonScalarText, JsonArrayText,
               dumps([status |-> "error"]), dumps([note |-> "n/a"])}

\* the insight tool called on a text of its caller's making
CallGenerateInsights ==
    /\ pc = "idle"
    /\ \E text \in LooseTexts :
         /\ tool_call' = [tool |-> "generate_insights", analysis_results |-> text]
         /\ insight' = generate_insights(text)
    /\ pc' = "reported"
    /\ UNCHANGED <<tool_files, contract>>
    /\ UNCHANGED harnessvars

\* the insight tool called on the contract a tool adapter returned
PassContractToInsights ==
    /\ pc = "called"
    /\ contract # ToolRaises
    /\ insight' = generate_insights(dumps(contract))
    /\ pc' = "reported"
    /\ UNCHANGED <<tool_files, tool_call, contract>>
    /\ UNCHANGED harnessvars

NextTools == \/ CallLoadDataset
             \/ CallCleanData
             \/ CallAnalyzeStatistics
             \/ CallCreateChart
             \/ CallGenerateInsights
             \/ PassContractToInsights

SpecTools == InitTools /\ [][NextTools]_vars


(* ============================== properties ============================ *)
IsPrefix(a, b) == Len(a) <= Len(b) /\ SubSeq(b, 1, Len(a)) = a
Ended == {"returned", "raised"}
OverrideScenarios == {"missing_revenue", "large_dataset"}
\* the record on line i of the metrics log
Record(i) == metrics_log.lines[i].obj
\* result_text of the run whose crew did `out`
ResultText(out) == IF out.kind = "ok" THEN out.text ELSE ErrorMarker \o out.msg

\* C1: every run_analysis call whose crew returns or raises an Exception
\* appends exactly one record, as the new last line of the metrics log, and
\* leaves every earlier line as it was; no other step changes the log.
C1_OneRecordPerRun ==
    [][LET ran == Len(crew_history') - Len(crew_history) IN
       /\ IsPrefix(metrics_log.lines, metrics_log'.lines)
       /\ Len(metrics_log'.lines) = Len(metrics_log.lines) + ran
       /\ metrics_log.exists => metrics_log'.exists
       /\ ran > 0 =>
            /\ ran = 1
            /\ metrics_log'.exists
            /\ metrics_log'.lines[Len(metrics_log'.lines)].kind = "object"
            /\ metrics_log'.lines[Len(metrics_log'.lines)].obj["start_time"]
                 = isoformat(clock)
            /\ metrics_log'.lines[Len(metrics_log'.lines)].obj["end_time"]
                 = isoformat(clock')
      ]_vars

\* a log that received records of a failed and of a successful run
C1_Witness ==
    /\ Len(metrics_log.lines) >= 2
    /\ Len(crew_history) = Len(metrics_log.lines)
    /\ \E i, j \in DOMAIN crew_history :
         crew_history[i].kind = "exception" /\ crew_history[j].kind = "ok"

\* C2: when the dataset existed at BASE_DATASET before
\* test_case_missing_dataset, it is there again with the same content once
\* the scenario has ended (run_analysis returned or raised), and it is
\* missing from that path only while the scenario's run is in progress.
C2_DatasetRestored ==
    /\ scenario["missing_dataset"] \in Ended =>
         before.exists /\ files[BASE_DATASET] = before
    /\ before.exists =>
         (files[BASE_DATASET].exists <=> scenario["missing_dataset"] # "running")
    /\ scenario["missing_dataset"] = "running" => ~files[BASE_DATASET].exists

\* the run of the missing-dataset scenario raised and the file is back
C2_Witness ==
    /\ scenario["missing_dataset"] = "raised"
    /\ uncaught = "BaseException"
    /\ before.exists
    /\ files[BASE_DATASET] = before

\* C3: once a scenario that sets the override has ended (run succeeded,
\* failed or raised), the override is not set, so no later scenario or run
\* starts with it.
C3_OverrideCleared ==
    (/\ \E n \in OverrideScenarios : scenario[n] \in Ended
     /\ \A n \in OverrideScenarios : scenario[n] # "running")
    => environ = Unset

\* the override was set, the run raised, and the finally block removed it
C3_Witness ==
    /\ scenario["missing_revenue"] = "raised"
    /\ uncaught = "BaseException"
    /\ environ = Unset

\* C4: the variant written by test_case_missing_revenue_column has the base
\* dataset's columns without "revenue", and it is gone once the scenario has
\* ended, whatever happened during the run or its cleanup.
C4_VariantRemoved ==
    /\ scenario["missing_revenue"] = "running" =>
         /\ files[alt_path].exists
         /\ SeqToSet(files[alt_path].cols)
              = SeqToSet(files[BASE_DATASET].cols) \ {"revenue"}
    /\ scenario["missing_revenue"] \in Ended => ~files[alt_path].exists

\* C5: the dataset path bound into the stage instructions of a run is the
\* override's value while the override is set, and the default path while
\* it is not.
C5_OverrideBindsPath ==
    pc \in RunPcs =>
        /\ environ # Unset => RAW_FILE = environ
        /\ environ = Unset => RAW_FILE = DefaultRawFile

\* C6: the feedback summary bound into the first stage of a run is the
\* summary of the metrics log as it stands when that run starts.
C6_FeedbackRecomputed ==
    pc \in RunPcs =>
        feedback_context = load_feedback_summary(metrics_log, DefaultMaxRuns)

\* C7: every record's report_file names an existing report file that holds
\* the result text of the run that wrote the record.
C7_ReportPerRun ==
    \A i \in DOMAIN metrics_log.lines :
        i \in DOMAIN crew_history =>
            /\ Record(i)["report_file"].s \in DOMAIN reports
            /\ reports[Record(i)["report_file"].s] = ResultText(crew_history[i])

\* C8: in every record error_message is non-null iff success is false;
\* success is false exactly when the crew raised an exception, and
\* error_message is then that exception's message.
C8_ErrorMessageIffFailure ==
    /\ Len(crew_history) = Len(metrics_log.lines)
    /\ \A i \in DOMAIN metrics_log.lines :
        /\ Record(i)["success"].t = "bool"
        /\ Record(i)["error_message"] # JNull <=> ~Record(i)["success"].b
        /\ ~Record(i)["success"].b <=> crew_history[i].kind = "exception"
        /\ crew_history[i].kind = "exception" =>
             Record(i)["error_message"] = JStr(crew_history[i].msg)

\* a failed run whose exception carried no text
C8_Witness ==
    \E i \in DOMAIN metrics_log.lines :
        /\ i \in DOMAIN crew_history
        /\ crew_history[i].kind = "exception"
        /\ crew_history[i].msg = ""
        /\ Record(i)["error_message"] = JStr("")

C10_SummaryNeverRaises ==
    pc = "summarized" =>
        /\ feedback_context.kind # "raises"
        /\ ~metrics_log.exists => feedback_context = FirstRunMessage
        /\ (metrics_log.exists /\ NonBlank(metrics_log.lines) = <<>>) =>
             feedback_context = EmptyMessage
        /\ (\E i \in DOMAIN metrics_log.lines :
              metrics_log.lines[i].kind \in {"garbage", "scalar"}) =>
             feedback_context = UnparsableMessage

\* the precondition of the scenario about to start is not met
PreconditionUnmet ==
    \/ pc = "md_setup" /\ ~files[BASE_DATASET].exists
    \/ pc = "mr_setup" /\ ~files[BASE_DATASET].exists
    \/ pc = "mr_setup" /\ files[BASE_DATASET].exists
                       /\ "revenue" \notin SeqToSet(files[BASE_DATASET].cols)
    \/ pc = "lg_setup" /\ ~files[large_path].exists
\* the scenario that position p starts
ScenarioAt(p) ==
    CASE p = "md_setup" -> "missing_dataset"
      [] p = "mr_setup" -> "missing_revenue"
      [] p = "lg_setup" -> "large_dataset"

\* C14: a scenario whose precondition is unmet is skipped: the step that
\* leaves its entry point runs no pipeline, appends no record, writes no
\* report, renames, creates or deletes no file, does not set the override and
\* returns None, which is no record of any run; and a scenario is skipped
\* only in that way.
C14_SkipHasNoEffect ==
    [][/\ (PreconditionUnmet /\ pc' # pc) =>
             /\ scenario'[ScenarioAt(pc)] = "skipped"
             /\ UNCHANGED <<files, metrics_log, reports, environ, crew_history>>
             /\ result' = PyNone
             /\ \A i \in DOMAIN metrics_log'.lines :
                    result'.kind # Returned(Record(i)).kind
       /\ \A n \in ScenarioNames :
             (scenario[n] # "skipped" /\ scenario'[n] = "skipped") =>
                 PreconditionUnmet /\ n = ScenarioAt(pc)]_vars

\* the missing-column scenario skipped on a dataset that is present but has
\* no revenue column, after a run that did write a record
C14_Witness ==
    /\ scenario["missing_revenue"] = "skipped"
    /\ scenario["missing_dataset"] \in Ended
    /\ files[BASE_DATASET].exists
    /\ metrics_log.lines # <<>>
    /\ result = PyNone
    /\ environ = Unset

\* the records of the log, in file order
LogRecords == [i \in DOMAIN metrics_log.lines |-> metrics_log.lines[i].obj]
\* the records the summary was computed over, oldest first
Window == last_slice(sorted_by_start_time(LogRecords), arg_max_runs)
Summarized == pc = "summarized" /\ feedback_context.kind = "summary"
\* the error messages of the failed records of the window, oldest first
FailedMessages ==
    LET failed == SelectSeq(Window, LAMBDA r : r["success"] = JBool(FALSE))
    IN [i \in DOMAIN failed |-> failed[i]["error_message"].s]
NonEmpty(msgs) == SelectSeq(msgs, LAMBDA m : m # "")
\* a message as the summary shows it
Shown(m) == IF Len(m) <= 140 THEN m ELSE SubSeq(m, 1, 140) \o "..."
\* the positions at which a message occurs for the first time
FirstSeen(msgs) == {i \in DOMAIN msgs : \A j \in 1..(i - 1) : msgs[j] # msgs[i]}
\* listed is the first three distinct messages of msgs, in first-seen
\* order, each as shown
ListsFirstThree(listed, msgs) ==
    LET first == FirstSeen(msgs)
        rank(i) == Cardinality({j \in first : j <= i})
    IN /\ Len(listed) = IF Cardinality(first) < 3 THEN Cardinality(first) ELSE 3
       /\ \A i \in first :
             rank(i) <= 3 => listed[rank(i)] = Shown(msgs[i])

\* C11 as stated: the errors listed are the first three distinct
\* error_message values of the failed records of the window, in first-seen
\* order, de-duplicated before truncation, each shown whole up to 140
\* characters and cut to 140 characters plus "..." beyond that.
C11_FirstThreeDistinctErrors ==
    Summarized => ListsFirstThree(feedback_context.errors, FailedMessages)

\* C11, amended: the errors listed are the first three distinct non-empty
\* error_message values of the failed records of the window, in first-seen
\* order, de-duplicated before truncation, each shown whole up to 140
\* characters and cut to 140 characters plus "..." beyond that.
C11_FirstThreeNonEmptyErrors ==
    Summarized =>
        ListsFirstThree(feedback_context.errors, NonEmpty(FailedMessages))

\* failures A, B, A, C, D in a window of five are listed as A, B, C
C11_Witness ==
    /\ Summarized
    /\ FailedMessages = <<"A", "B", "A", "C", "D">>
    /\ feedback_context.errors = <<"A", "B", "C">>

\* the smaller of two numbers
Min(a, b) == IF a < b THEN a ELSE b

\* C12: on a log of well-formed records and a non-negative max_runs the
\* summary considers exactly min(number of records, max_runs) records, so
\* the reported total never exceeds max_runs.
C12_WindowIsLastMaxRuns ==
    Summarized =>
        /\ feedback_context.total = Min(Len(LogRecords), arg_max_runs)
        /\ feedback_context.total <= arg_max_runs

\* number of records of the window whose run succeeded
WindowSuccesses ==
    Cardinality({i \in DOMAIN Window : Window[i]["success"] = JBool(TRUE)})
\* hundredths h is successes / total written with two decimals
IsTwoDecimalsOf(h, successes, total) ==
    /\ h \in 0..100
    /\ 2 * (100 * successes - h * total) <= total
    /\ 2 * (h * total - 100 * successes) <= total

Adapters == {"load_dataset", "clean_data", "analyze_statistics", "create_chart"}
\* the success payload of each stage
PayloadFields(tool) ==
    CASE tool = "load_dataset" -> {"path", "rows", "columns"}
      [] tool = "clean_data" -> {"original_rows", "clean_rows", "clean_path"}
      [] tool = "analyze_statistics" -> {"mean", "std", "trend", "correlations"}
      [] tool = "create_chart" -> {"chart_type", "x", "y", "path"}
\* a tool adapter has returned
AdapterReturned == tool_call.tool \in Adapters /\ contract # ToolRaises

\* C15: every result a tool adapter returns has status ok or error, and a
\* status=error result has a message and none of the success payload fields
\* of its stage.
C15_ErrorContractsCarryNoPayload ==
    AdapterReturned =>
        /\ "status" \in DOMAIN contract
        /\ contract.status \in {"ok", "error"}
        /\ contract.status = "error" =>
             /\ "message" \in DOMAIN contract
             /\ contract.message # ""
             /\ DOMAIN contract \cap PayloadFields(tool_call.tool) = {}

\* an error result with an extra field: the missing target column
C15_Witness ==
    /\ AdapterReturned
    /\ tool_call.tool = "analyze_statistics"
    /\ contract.status = "error"
    /\ "available_columns" \in DOMAIN contract

\* C16: generate_insights never raises, and a text that is not JSON or is
\* JSON but no object gets the tool-error findings block, not the block of
\* normal quality.
C16_NonContractTextIsToolError ==
    (pc = "reported" /\ tool_call.tool = "generate_insights") =>
        /\ insight.kind # "raised"
        /\ tool_call.analysis_results.json # "object" =>
             insight.footer = ErrorQuality

\* C17: clean_data writes to a new file: whenever it can read data_path and
\* returns, the file at data_path is as before, and the clean_path it
\* returns is another path.
C17_CleanDataKeepsInput ==
    [][(pc = "idle" /\ tool_call'.tool = "clean_data"
        /\ readable(tool_files, tool_call'.data_path)) =>
           /\ tool_files'[tool_call'.data_path] = tool_files[tool_call'.data_path]
           /\ contract'.status = "ok" =>
                contract'.clean_path # tool_call'.data_path]_vars

\* analyze_statistics was called on a file of one row and a numeric target
SingleRowAnalysis ==
    /\ pc \in {"called", "reported"}
    /\ tool_call.tool = "analyze_statistics"
    /\ readable(tool_files, tool_call.data_path)
    /\ Len(tool_files[tool_call.data_path].rows) = 1
    /\ tool_call.target \in SeqToSet(numeric_columns(tool_files[tool_call.data_path]))

\* C18: analyze_statistics on a dataset of a single row returns status ok
\* with a complete trend block whose slope is undefined and whose direction
\* is "stable".
C18_SingleRowTrendIsStable ==
    SingleRowAnalysis =>
        /\ contract.status = "ok"
        /\ DOMAIN contract.trend = {"slope", "r2", "p_value", "direction"}
        /\ contract.trend.slope.nan
        /\ contract.trend.direction = "stable"

\* one row whose revenue is a number
C18_Witness ==
    /\ SingleRowAnalysis
    /\ ~tool_files[tool_call.data_path].rows[1]["revenue"].nan
    /\ tool_call.target = "revenue"
    /\ contract.status = "ok"

====
